---- MODULE Spec2Model ----
(***************************************************************************)
(* A model of the Demodifier: the generator of modification-induced        *)
(* sequence permutations (analysis.py), the row pipeline (main.py), the    *)
(* Unipept resolver (unipept_api.py) and the classifier of write_results   *)
(* (writers.py).                                                           *)
(*                                                                         *)
(* A peptide is a sequence of one-letter residue codes.  Python indexes    *)
(* it from 0 and TLA+ from 1: position p of the source is index p + 1      *)
(* here, so the leading residue is peptide[1].                             *)
(*                                                                         *)
(* A modification annotation is the text of the Modifications column.  It  *)
(* is modelled as the sequence of its entries (the text is the entries     *)
(* joined by "; "), each entry drawn from ModVocabulary.  The substring    *)
(* tests of the source are read off each entry; its regular expression     *)
(* runs over the lexemes of the text (digits, whitespace, words, groups).  *)
(***************************************************************************)
EXTENDS Integers, Sequences, FiniteSets, TLC

\* Longest peptide the generator is run on.
MaxLen == 3

\* Longest peptide of a row taken through the lookups and the writer.
MaxRowLen == 2

\* Most entries in one modification annotation.
MaxMods == 2

\* unipept_api.py: chunk_size = 100
chunk_size == 100

\* unipept_api.py: Retry(total=3, ...)
total == 3

\* unipept_api.py: Retry(..., status_forcelist=[429, 500, 502, 503, 504], ...)
status_forcelist == {429, 500, 502, 503, 504}

\* Longest list of peptides get_lcas_for_permutations is called on.
MaxPeptides == 250

\* Most rows in the input of run_pipeline.
MaxRows == 2

\* Most lexemes in an annotation text whose every spelling is tried.
MaxLexemes == 4

\* int(num): the most digits the conversion takes before it raises ValueError
\* (sys.int_info.default_max_str_digits of the interpreter).
int_max_str_digits == 4300

\* Largest num_threads run_pipeline is called with.
MaxThreads == 2

Residues == {"N", "Q", "D", "E", "G"}

ModVocabulary ==
    << "Deamidated (NQ)", "2 Deamidated (NQ)", "Gln->pyro-Glu", "Glu->pyro-Glu",
       "Pyro-carbamidomethyl (C)" >>

Min(a, b) == IF a <= b THEN a ELSE b

RECURSIVE FlattenBackwards(_)
\* Variant of Flatten: each list goes in front of those before it.
FlattenBackwards(ss) ==
    IF ss = <<>> THEN <<>> ELSE FlattenBackwards(Tail(ss)) \o Head(ss)

RECURSIVE Flatten(_)
\* The concatenation of a sequence of sequences (list.extend / nested loops
\* appending to one list).
Flatten(ss) == IF ss = <<>> THEN <<>> ELSE Head(ss) \o Flatten(Tail(ss))

Range(s) == {s[i] : i \in 1..Len(s)}

RECURSIVE SumSeq(_)
SumSeq(s) == IF s = <<>> THEN 0 ELSE Head(s) + SumSeq(Tail(s))

(***************************************************************************)
(* Reading the annotation                                                  *)
(***************************************************************************)

\* "pyro" in entry.lower()
ContainsPyro(entry) ==
    entry \in {"Gln->pyro-Glu", "Glu->pyro-Glu", "Pyro-carbamidomethyl (C)"}

\* Variant of ContainsTag: any pyro entry is taken for the tag.
ContainsTagLoose(entry, tag) == ContainsPyro(entry)

\* tag in entry, case-sensitive
ContainsTag(entry, tag) == entry = tag

\* \d
Digits == {"0", "1", "2", "3", "4", "5", "6", "7", "8", "9"}

IsDigit(lexeme) == lexeme \in Digits

\* \s
Spaces == {" ", "\t"}

IsSpace(lexeme) == lexeme \in Spaces

\* re.IGNORECASE: the lexeme in lower case.
Lower(lexeme) ==
    CASE lexeme \in {"Deamidated", "DEAMIDATED"} -> "deamidated"
      [] lexeme \in {"Deamidation", "DEAMIDATION"} -> "deamidation"
      [] lexeme \in {"(NQ)", "(Nq)", "(nQ)"} -> "(nq)"
      [] OTHER -> lexeme

\* (Deamidated|Deamidation)
IsMarkerWord(lexeme) == Lower(lexeme) \in {"deamidated", "deamidation"}

\* \(NQ\)
IsNQ(lexeme) == Lower(lexeme) = "(nq)"

\* Where a greedy \d+ or \s* that starts at i stops: the first index from i on
\* whose lexeme is not of the class, Len(text) + 1 if there is none.
RunEnd(text, i, class) ==
    LET stops == {j \in i..Len(text) : text[j] \notin class}
    IN  IF stops = {} THEN Len(text) + 1
        ELSE CHOOSE j \in stops : \A k \in stops : j <= k

\* (Deamidated|Deamidation)\s*\(NQ\) from index k on: the index after the
\* match, 0 if there is no match.
MarkerEnd(text, k) ==
    IF k > Len(text) \/ ~IsMarkerWord(text[k]) THEN 0
    ELSE LET nq == RunEnd(text, k + 1, Spaces)
         IN  IF nq <= Len(text) /\ IsNQ(text[nq]) THEN nq + 1 ELSE 0

\* The match of the pattern that starts at index i: with the optional group,
\* the digits and the whitespace taken greedily (a shorter run of either is
\* followed by a lexeme the rest of the pattern cannot take), or without it.
MatchAt(text, i) ==
    IF IsDigit(text[i])
    THEN LET digits_end == RunEnd(text, i, Digits)
             word == RunEnd(text, digits_end, Spaces)
         IN  [end |-> MarkerEnd(text, word), num |-> SubSeq(text, i, digits_end - 1)]
    ELSE [end |-> MarkerEnd(text, i), num |-> <<>>]

RECURSIVE findall(_, _)
\* re.findall(r'(?:(\d+)\s*)?(Deamidated|Deamidation)\s*\(NQ\)', text,
\* re.IGNORECASE) from index i on: the first group of each match, leftmost
\* matches first, none overlapping.
findall(text, i) ==
    IF i > Len(text) THEN <<>>
    ELSE IF MatchAt(text, i).end # 0
         THEN <<MatchAt(text, i).num>> \o findall(text, MatchAt(text, i).end)
         ELSE findall(text, i + 1)

DigitValue(digit) ==
    CASE digit = "0" -> 0 [] digit = "1" -> 1 [] digit = "2" -> 2 [] digit = "3" -> 3
      [] digit = "4" -> 4 [] digit = "5" -> 5 [] digit = "6" -> 6 [] digit = "7" -> 7
      [] digit = "8" -> 8 [] digit = "9" -> 9

RECURSIVE DecimalValue(_, _)
\* The number the first n digits of num write.
DecimalValue(num, n) ==
    IF n = 0 THEN 0 ELSE 10 * DecimalValue(num, n - 1) + DigitValue(num[n])

\* int(num) raises ValueError: num has more digits than the conversion takes.
int_raises(num) == Len(num) > int_max_str_digits

\* int(num), where it returns: the number that num writes, leading zeros
\* being of no account.
int_value(num) ==
    LET significant == SubSeq(num, RunEnd(num, 1, {"0"}), Len(num))
    IN  DecimalValue(significant, Len(significant))

\* sum(int(num) if num else 1 for num, _ in matches)
SumOfMatches(matches) ==
    SumSeq([k \in 1..Len(matches) |->
               IF matches[k] # <<>> THEN int_value(matches[k]) ELSE 1])

\* count zeros, one after the other.
Zeros(count) == [i \in 1..count |-> "0"]

\* A number of one digit more than int converts, written short.
LongNumber == "00...0"

\* The lexemes of an entry of the vocabulary and of the long number; any other
\* piece of text is one lexeme.
LexemesOf(entry) ==
    CASE entry = "Deamidated (NQ)" -> << "Deamidated", " ", "(NQ)" >>
      [] entry = "2 Deamidated (NQ)" -> << "2", " ", "Deamidated", " ", "(NQ)" >>
      [] entry = LongNumber -> Zeros(int_max_str_digits + 1)
      [] OTHER -> << entry >>

RECURSIVE LexedRange(_, _, _)
\* The lexemes of the entries first..last, one entry after the other.
LexedRange(modifications, first, last) ==
    IF first > last THEN <<>>
    ELSE IF first = last THEN LexemesOf(modifications[first])
    ELSE LET middle == (first + last) \div 2
         IN  LexedRange(modifications, first, middle)
                 \o LexedRange(modifications, middle + 1, last)

\* The text of an annotation, lexeme by lexeme.  The separators between its
\* entries hold no digit and no marker and are left out.
Lexed(modifications) == LexedRange(modifications, 1, Len(modifications))

\* matches = re.findall(...), after: if not modifications: return 0
matches_of(modifications) ==
    IF modifications = <<>> THEN <<>> ELSE findall(Lexed(modifications), 1)

\* extract_deamidation_count raises: one of its calls of int does.
extract_deamidation_count_raises(modifications) ==
    LET matches == matches_of(modifications)
    IN  \E k \in 1..Len(matches) : int_raises(matches[k])

\* extract_deamidation_count, where it returns.
extract_deamidation_count(modifications) == SumOfMatches(matches_of(modifications))

pyro_glu(modifications) ==
    IF modifications # <<>>
    THEN \E i \in 1..Len(modifications) : ContainsPyro(modifications[i])
    ELSE FALSE

HasTag(modifications, tag) ==
    \E i \in 1..Len(modifications) : ContainsTag(modifications[i], tag)

(***************************************************************************)
(* Phase 1 and Phase 2                                                     *)
(***************************************************************************)

\* Variant of peptide_for_permutation: the leading residue is not masked.
peptide_unmasked(peptide, modifications) == peptide

\* peptide_for_permutation: the peptide with a leading Q or E replaced by the
\* placeholder X when the annotation mentions pyro.
peptide_for_permutation(peptide, modifications) ==
    IF pyro_glu(modifications) /\ peptide[1] \in {"Q", "E"}
    THEN <<"X">> \o Tail(peptide)
    ELSE peptide

RECURSIVE IndicesFrom(_, _, _, _)
\* [i for i, letter in enumerate(s) if letter == l and i not in excluded],
\* ascending, from index i on.
IndicesFrom(s, l, excluded, i) ==
    IF i > Len(s) THEN <<>>
    ELSE IF s[i] = l /\ i \notin excluded
         THEN <<i>> \o IndicesFrom(s, l, excluded, i + 1)
         ELSE IndicesFrom(s, l, excluded, i + 1)

Indices(s, l, excluded) == IndicesFrom(s, l, excluded, 1)

RECURSIVE combinations(_, _)
\* itertools.combinations(s, k): the k-element subsequences of s, in
\* lexicographic order of position.
combinations(s, k) ==
    IF k = 0 THEN << <<>> >>
    ELSE IF Len(s) < k THEN <<>>
    ELSE LET with == combinations(Tail(s), k - 1)
         IN  [j \in 1..Len(with) |-> <<Head(s)>> \o with[j]]
             \o combinations(Tail(s), k)

\* temp_peptide[index] = letter for index in combo
Substitute(peptide, combo, letter) ==
    [i \in 1..Len(peptide) |-> IF i \in Range(combo) THEN letter ELSE peptide[i]]

\* The string one pass of the innermost loop of Phase 1 builds.
DeamidatedString(peptide, pfp, combo_n, combo_q) ==
    Substitute(Substitute(peptide, combo_n, "D"), combo_q, "E")

\* Variant of num_q_bound: the Q loop forgets the N substitutions already made.
num_q_bound_unshared(max_substitutions, num_n, q_indices) ==
    Min(max_substitutions, Len(q_indices))

\* min(max_substitutions - num_n, len(q_indices)): the most Q substitutions
\* beside num_n N substitutions.
num_q_bound(max_substitutions, num_n, q_indices) ==
    Min(max_substitutions - num_n, Len(q_indices))

\* n_indices / q_indices of Phase 1: the positions of letter in
\* peptide_for_permutation, the positions Phase 1 takes its combinations from.
CandidateIndices(peptide, modifications, letter) ==
    Indices(peptide_for_permutation(peptide, modifications), letter, {})

generate_deamidation_permutations(peptide, max_substitutions, modifications) ==
    LET pfp == peptide_for_permutation(peptide, modifications)
        n_indices == CandidateIndices(peptide, modifications, "N")
        q_indices == CandidateIndices(peptide, modifications, "Q")
        Entry(combo_n, combo_q) ==
            [perm |-> DeamidatedString(peptide, pfp, combo_n, combo_q),
             count |-> Len(combo_n) + Len(combo_q),
             modified_positions |-> combo_n \o combo_q]
        ForQ(combo_n, num_q) ==
            LET cq == combinations(q_indices, num_q)
            IN  [b \in 1..Len(cq) |-> Entry(combo_n, cq[b])]
        ForN(num_n, num_q) ==
            LET cn == combinations(n_indices, num_n)
            IN  Flatten([a \in 1..Len(cn) |-> ForQ(cn[a], num_q)])
        ForNumN(num_n) ==
            Flatten([jq \in 1..(num_q_bound(max_substitutions, num_n, q_indices) + 1)
                        |-> ForN(num_n, jq - 1)])
    IN  IF n_indices = <<>> /\ q_indices = <<>>
        THEN << [perm |-> peptide, count |-> 0, modified_positions |-> <<>>] >>
        ELSE Flatten([jn \in 1..(Min(max_substitutions, Len(n_indices)) + 1)
                         |-> ForNumN(jn - 1)])

\* Variant of ReamidatedString: the chosen E are not reverted.
ReamidatedStringDOnly(peptide, pfp, combo_d, combo_e) ==
    Substitute(peptide, combo_d, "N")

\* The string one pass of the innermost loop of Phase 2 builds.
ReamidatedString(peptide, pfp, combo_d, combo_e) ==
    Substitute(Substitute(peptide, combo_d, "N"), combo_e, "Q")

\* Variant of EligibleIndices: the modified positions are not left out.
EligibleIndicesUnfrozen(pfp, letter, modified_positions) ==
    Indices(pfp, letter, {})

\* d_indices / e_indices of Phase 2.
EligibleIndices(pfp, letter, modified_positions) ==
    Indices(pfp, letter, Range(modified_positions))

generate_reamidation_permutations(peptide, modified_positions, modifications) ==
    LET pfp == peptide_for_permutation(peptide, modifications)
        d_indices == EligibleIndices(pfp, "D", modified_positions)
        e_indices == EligibleIndices(pfp, "E", modified_positions)
        ForE(combo_d, num_e) ==
            LET ce == combinations(e_indices, num_e)
            IN  [b \in 1..Len(ce) |-> ReamidatedString(peptide, pfp, combo_d, ce[b])]
        ForD(num_d, num_e) ==
            LET cd == combinations(d_indices, num_d)
            IN  Flatten([a \in 1..Len(cd) |-> ForE(cd[a], num_e)])
        ForNumD(num_d) ==
            Flatten([je \in 1..(Len(e_indices) + 1) |-> ForD(num_d, je - 1)])
    IN  IF d_indices = <<>> /\ e_indices = <<>>
        THEN <<peptide>>
        ELSE Flatten([jd \in 1..(Len(d_indices) + 1) |-> ForNumD(jd - 1)])

(***************************************************************************)
(* Phase 3                                                                 *)
(***************************************************************************)

RECURSIVE FirstOccurrence(_, _, _)
\* The least index >= i at which s holds letter, 0 if there is none.
FirstOccurrence(s, letter, i) ==
    IF i > Len(s) THEN 0
    ELSE IF s[i] = letter THEN i
    ELSE FirstOccurrence(s, letter, i + 1)

\* Variant of ReplaceFirst: replace without the count, every occurrence.
ReplaceEvery(perm, old, new) ==
    [i \in 1..Len(perm) |-> IF perm[i] = old THEN new ELSE perm[i]]

\* perm.replace(old, new, 1): the first occurrence of old, wherever it is.
ReplaceFirst(perm, old, new) ==
    LET at == FirstOccurrence(perm, old, 1)
    IN  IF at = 0 THEN perm ELSE [perm EXCEPT ![at] = new]

\* original_peptide.startswith(letter)
startswith(s, letter) == Len(s) >= 1 /\ s[1] = letter

\* modified_peptides of add_pyro_glu_permutations.
modified_peptides(peptide_permutations, modifications) ==
    LET original_peptide == peptide_permutations[1]
    IN  IF modifications = <<>> THEN <<>>
        ELSE IF startswith(original_peptide, "Q") /\ HasTag(modifications, "Gln->pyro-Glu")
        THEN [i \in 1..Len(peptide_permutations)
                 |-> ReplaceFirst(peptide_permutations[i], "Q", "E")]
        ELSE IF startswith(original_peptide, "E") /\ HasTag(modifications, "Glu->pyro-Glu")
        THEN [i \in 1..Len(peptide_permutations)
                 |-> ReplaceFirst(peptide_permutations[i], "E", "Q")]
        ELSE <<>>

RECURSIVE Distinct(_, _)
\* s without the elements of seen and without repeats, first occurrences kept:
\* the elements of set(s).
Distinct(s, seen) ==
    IF s = <<>> THEN <<>>
    ELSE IF Head(s) \in seen THEN Distinct(Tail(s), seen)
    ELSE <<Head(s)>> \o Distinct(Tail(s), seen \cup {Head(s)})

\* Variant of add_pyro_glu_permutations: the modified peptides replace the
\* variants they come from.
pyro_permutations_replacing(peptide_permutations, modifications) ==
    IF modified_peptides(peptide_permutations, modifications) = <<>>
    THEN Distinct(peptide_permutations, {})
    ELSE Distinct(modified_peptides(peptide_permutations, modifications), {})

\* The elements of pyro_permutations = set(peptide_permutations) updated with
\* modified_peptides, each once.
add_pyro_glu_permutations(peptide_permutations, modifications) ==
    Distinct(peptide_permutations
                 \o modified_peptides(peptide_permutations, modifications), {})

Reverse(s) == [i \in 1..Len(s) |-> s[Len(s) + 1 - i]]

\* Variant of list_of_set: one of the listings leaves an element out.
list_of_set_lossy(elements) ==
    {Distinct(elements, {}), Tail(Reverse(Distinct(elements, {})))}

\* Variant of list_of_set: the first element is listed once more.
list_of_set_repeating(elements) ==
    {Distinct(elements, {}) \o <<elements[1]>>,
     Reverse(Distinct(elements, {}) \o <<elements[1]>>)}

\* list(set(elements)): the order in which a set of strings is listed is not
\* fixed by the language (it follows the strings' hashes, which differ from run
\* to run).  The model draws the list from two listings of the set: the order
\* given and its reverse.
list_of_set(elements) == {Distinct(elements, {}), Reverse(Distinct(elements, {}))}

(***************************************************************************)
(* The resolver                                                            *)
(***************************************************************************)

\* What one GET of the session ends as, retries included: the request failed
\* (ok = FALSE: the except branch), or a parsed body, a list of records
\* {peptide, taxon_name}, taxon_name possibly missing (named = FALSE).
FailedRequest == [ok |-> FALSE, results |-> <<>>]

\* {}: a dictionary without keys.
EmptyMap == [p \in {} |-> "no match"]

\* map.get(p, "no match")
MapGet(map, p) == IF p \in DOMAIN map THEN map[p] ELSE "no match"

RECURSIVE ResponseMap(_, _)
\* lca_map = {r["peptide"]: r.get("taxon_name", "no match") for r in results},
\* built from the first n records: a later record of a peptide replaces an
\* earlier one.
ResponseMap(results, n) ==
    IF n = 0 THEN EmptyMap
    ELSE (results[n].peptide :>
              (IF results[n].named THEN results[n].taxon_name ELSE "no match"))
         @@ ResponseMap(results, n - 1)

\* Variant of process_peptides: a failed request is reported as "no match".
process_peptides_unmarked(peptides, outcome) ==
    IF outcome.ok
    THEN LET response_map == ResponseMap(outcome.results, Len(outcome.results))
         IN  [i \in 1..Len(peptides) |-> MapGet(response_map, peptides[i])]
    ELSE [i \in 1..Len(peptides) |-> "no match"]

process_peptides(peptides, outcome) ==
    IF outcome.ok
    THEN LET response_map == ResponseMap(outcome.results, Len(outcome.results))
         IN  [i \in 1..Len(peptides) |-> MapGet(response_map, peptides[i])]
    ELSE [i \in 1..Len(peptides) |-> "no response"]

\* range(0, len(permutations), chunk_size) has this many elements.
NumChunks(k) == (k + chunk_size - 1) \div chunk_size

\* Variant of Chunk: the slice runs one element into the next chunk.
ChunkOverlapping(perms, c) ==
    SubSeq(perms, chunk_size * (c - 1) + 1, Min(chunk_size * c + 1, Len(perms)))

\* permutations[i : i + chunk_size] for the c-th i (c from 1).
Chunk(perms, c) ==
    SubSeq(perms, chunk_size * (c - 1) + 1, Min(chunk_size * c, Len(perms)))

RECURSIVE LcaMapGet(_, _, _, _)
\* lca_map.get(p, "no match") after the chunks 1..c were entered: the label from
\* the last chunk that holds p.  chunk_lcas[c] is process_peptides' list for
\* chunk c.
LcaMapGet(permutations, chunk_lcas, c, p) ==
    IF c = 0 THEN "no match"
    ELSE LET chunk == Chunk(permutations, c)
             at == {i \in 1..Len(chunk) : chunk[i] = p}
         IN  IF at # {}
             THEN chunk_lcas[c][CHOOSE i \in at : \A j \in at : j <= i]
             ELSE LcaMapGet(permutations, chunk_lcas, c - 1, p)

\* outcomes[c] is what the request for chunk c ended as.
get_lcas_for_permutations(permutations, outcomes) ==
    LET chunk_lcas == [c \in 1..NumChunks(Len(permutations)) |->
                          process_peptides(Chunk(permutations, c), outcomes[c])]
    IN  [i \in 1..Len(permutations) |->
            LcaMapGet(permutations, chunk_lcas, NumChunks(Len(permutations)),
                      permutations[i])]

(***************************************************************************)
(* The oracle: an external service.  A row's requests are answered from a  *)
(* database drawn from a small family.                                     *)
(***************************************************************************)

OracleDBs == {"homo", "none", "split", "partial"}

Deamidated(p) == \E i \in 1..Len(p) : p[i] \in {"D", "E"}

\* The taxon the database holds for p, "absent" if it holds none.
OracleTaxon(db, p) ==
    CASE db = "homo" -> "Homo"
      [] db = "none" -> "absent"
      [] db = "split" -> (IF Deamidated(p) THEN "Bos" ELSE "Homo")
      [] db = "partial" -> (IF Deamidated(p) THEN "absent" ELSE "Homo")
      [] db = "nameless" -> (IF Deamidated(p) THEN "unnamed"
                             ELSE IF p[Len(p)] = "G" THEN "absent" ELSE "Homo")

\* The body of the response: a record for each peptide the database holds, in
\* the order asked, the taxon_name left out of the records of "unnamed" ones.
OracleResults(db, peptides) ==
    LET Held(r) == r.taxon_name # "absent"
    IN  SelectSeq([i \in 1..Len(peptides) |->
                      [peptide |-> peptides[i],
                       named |-> OracleTaxon(db, peptides[i]) # "unnamed",
                       taxon_name |-> OracleTaxon(db, peptides[i])]],
                  Held)

\* The outcomes a request for peptides can have.
RequestOutcomes(peptides, db) ==
    {FailedRequest, [ok |-> TRUE, results |-> OracleResults(db, peptides)]}

(***************************************************************************)
(* The classifier                                                          *)
(***************************************************************************)

\* Variant of count_deamidatable_residues: the leading residue is counted.
count_every_residue(peptide, modifications) ==
    IF peptide = <<>> THEN 0
    ELSE Len(Indices(peptide, "N", {})) + Len(Indices(peptide, "Q", {}))

count_deamidatable_residues(peptide, modifications) ==
    IF peptide = <<>> THEN 0
    ELSE LET sequence == IF pyro_glu(modifications) /\ peptide[1] \in {"Q", "E"}
                         THEN Tail(peptide) ELSE peptide
         IN  Len(Indices(sequence, "N", {})) + Len(Indices(sequence, "Q", {}))

\* Variant of deamidation_position_required: as many events as deamidatable
\* residues still ask for the position.
deamidation_position_required_upto(mods, pep, verdict) ==
    IF pep = <<>> THEN "not required"
    ELSE LET num_deamid == extract_deamidation_count(mods)
         IN  IF verdict # "no" \/ num_deamid = 0 THEN "not required"
             ELSE IF num_deamid <= count_deamidatable_residues(pep, mods)
                  THEN "required" ELSE "not required"

deamidation_position_required(mods, pep, verdict) ==
    IF pep = <<>> THEN "not required"
    ELSE LET num_deamid == extract_deamidation_count(mods)
         IN  IF verdict # "no" \/ num_deamid = 0 THEN "not required"
             ELSE IF num_deamid < count_deamidatable_residues(pep, mods)
                  THEN "required" ELSE "not required"

\* if lca != "no match": the label is counted.
CountedLabel(lca) == lca # "no match"

RECURSIVE CountedIndices(_, _, _)
\* The indices i <= n, ascending from i, of the zipped pairs whose label counts.
CountedIndices(row_lcas, n, i) ==
    IF i > n THEN <<>>
    ELSE IF CountedLabel(row_lcas[i])
         THEN <<i>> \o CountedIndices(row_lcas, n, i + 1)
         ELSE CountedIndices(row_lcas, n, i + 1)

\* Variant of identical_lcas_of: a single label is compared with itself.
identical_lcas_strict(lca_options) ==
    IF Len(lca_options) < 1 THEN "NA"
    ELSE IF Cardinality(Range(lca_options)) = 1 THEN "yes"
    ELSE "no"

identical_lcas_of(lca_options) ==
    IF Len(lca_options) <= 1 THEN "NA"
    ELSE IF Cardinality(Range(lca_options)) = 1 THEN "yes"
    ELSE "no"

\* The summary record write_results writes for one result tuple.
SummaryRecord(sequence_col, modifications_col, final_perms, lcas, input_lca) ==
    LET n == Min(Len(final_perms), Len(lcas))
        kept == CountedIndices(lcas, n, 1)
        lca_options == [k \in 1..Len(kept) |-> lcas[kept[k]]]
        permutations_with_lcas == [k \in 1..Len(kept) |-> final_perms[kept[k]]]
        identical_lcas == identical_lcas_of(lca_options)
    IN  [Sequence |-> sequence_col,
         Modifications |-> modifications_col,
         input_pep_LCA |-> input_lca,
         total_unique_permutations |-> Len(final_perms),
         all_permutations_with_LCAs |-> Len(permutations_with_lcas),
         permutations_yielding_LCAs |-> permutations_with_lcas,
         all_permutation_LCAs |-> lca_options,
         identical_LCAs |-> identical_lcas,
         deamidation_position_checking |->
             deamidation_position_required(modifications_col, sequence_col, identical_lcas)]

\* The per-variant records write_results writes for one result tuple.
VariantRecords(sequence_col, modifications_col, final_perms, lcas) ==
    [i \in 1..Min(Len(final_perms), Len(lcas)) |->
        [Sequence |-> sequence_col, Modifications |-> modifications_col,
         Variant |-> final_perms[i], Variant_LCA |-> lcas[i]]]

(***************************************************************************)
(* One input row through process_row and write_results                     *)
(***************************************************************************)

VARIABLES
    peptide,             \* process_row: peptide (the stripped sequence field)
    modifications,       \* process_row: modifications (the stripped annotation)
    pc,                  \* where the row is: start, skipped, generated, resolved, written
    max_substitutions,   \* process_row: max_substitutions
    peptide_options,     \* process_row: peptide_options (Phase 1)
    reamidated,          \* the Phase-2 list of each Phase-1 variant, in order
    final_permutations,  \* process_row: final_permutations after Phase 3
    input_pep_lca,       \* process_row: input_pep_lca
    row_lcas,            \* process_row: row_lcas
    summary_rows,        \* the summary records written
    variant_rows         \* the per-variant records written

VARIABLES
    identical_lcas,      \* deamidation_position_required: the verdict passed in
    deamid_check         \* deamidation_position_required: the value returned

VARIABLES
    permutations,        \* get_lcas_for_permutations: the list passed in
    oracle_db,           \* the database the oracle answers this call from
    resolver_pc,         \* where the call is: idle, looping, awaiting, returned
    chunk_start,         \* get_lcas_for_permutations: i, the offset of the chunk
    attempts,            \* the retries the adapter has made of the latest GET
    last_status,         \* what the latest attempt of the latest GET ended as
    requests,            \* the calls of process_peptides so far, in order
    lca_map,             \* get_lcas_for_permutations: lca_map
    lcas                 \* get_lcas_for_permutations: the list returned

VARIABLES
    rows,                \* run_pipeline: the rows read_input_rows yields
    num_threads,         \* run_pipeline: num_threads
    pool_db,             \* the database the oracle answers this run from
    pool_pc,             \* where run_pipeline is: idle, running, returned, written
    next_row,            \* the executor's queue: the next submitted row to start
    futures,             \* run_pipeline: futures, one per row
    tasks,               \* per worker thread, the process_row call it is in
    thread_local,        \* _thread_local: per slot, the session held (0: none)
    sessions,            \* the sessions make_session created: the creating thread
    oracle_calls,        \* the GETs made: row, thread, session, chunk, whether ok
    generated,           \* the rows for which variants were generated
    results,             \* run_pipeline: results
    collected            \* the futures as_completed has yielded

\* The variables of a run of run_pipeline and write_results.
poolVars ==
    << rows, num_threads, pool_db, pool_pc, next_row, futures, tasks,
       thread_local, sessions, oracle_calls, generated, results, collected >>

\* The variables of a call of deamidation_position_required on its own.
checkVars == << identical_lcas, deamid_check >>

\* The variables of a call of get_lcas_for_permutations on its own.
resolverVars ==
    << permutations, oracle_db, resolver_pc, chunk_start, attempts, last_status,
       requests, lca_map, lcas >>

\* The variables process_row and write_results of one row leave alone.
beyondRow == << checkVars, resolverVars, poolVars >>

vars ==
    << peptide, modifications, pc, max_substitutions, peptide_options, reamidated,
       final_permutations, input_pep_lca, row_lcas, summary_rows, variant_rows,
       beyondRow >>

\* No call of deamidation_position_required on its own is under way.
NoCheck ==
    /\ identical_lcas = "unset"
    /\ deamid_check = "unset"

\* No attempt of a GET has ended yet.
NoAttempt == [status |-> 0, body |-> "none"]

\* No call of get_lcas_for_permutations on its own is under way.
NoResolverCall ==
    /\ permutations = <<>>
    /\ oracle_db = "unset"
    /\ resolver_pc = "idle"
    /\ chunk_start = 0
    /\ attempts = 0
    /\ last_status = NoAttempt
    /\ requests = <<>>
    /\ lca_map = EmptyMap
    /\ lcas = <<>>

\* No run of run_pipeline is under way.
NoPool ==
    /\ rows = <<>>
    /\ num_threads = 0
    /\ pool_db = "unset"
    /\ pool_pc = "idle"
    /\ next_row = 0
    /\ futures = <<>>
    /\ tasks = <<>>
    /\ thread_local = <<>>
    /\ sessions = <<>>
    /\ oracle_calls = {}
    /\ generated = {}
    /\ results = <<>>
    /\ collected = {}

\* The peptides an input row can hold: every string of up to n residues, the
\* empty one included.
Peptides(n) == UNION {[1..k -> Residues] : k \in 0..n}

\* The annotations an input row can hold: up to MaxMods different entries of the
\* vocabulary, in vocabulary order.
Annotations ==
    UNION { { [i \in 1..k |-> ModVocabulary[ix[i]]] :
                ix \in {f \in [1..k -> 1..Len(ModVocabulary)] :
                           \A i \in 1..k : \A j \in 1..k : i < j => f[i] < f[j]} } :
            k \in 0..MaxMods }

\* A row as read, before process_row runs on it.
RowRead(n) ==
    /\ peptide \in Peptides(n)
    /\ modifications \in Annotations
    /\ pc = "start"
    /\ max_substitutions = 0
    /\ peptide_options = <<>>
    /\ reamidated = <<>>
    /\ final_permutations = <<>>
    /\ input_pep_lca = "unset"
    /\ row_lcas = <<>>
    /\ summary_rows = <<>>
    /\ variant_rows = <<>>

Init == RowRead(MaxRowLen) /\ NoCheck /\ NoResolverCall /\ NoPool

\* process_row: if not peptide: return None; run_pipeline drops the None.
SkipEmptyRow ==
    /\ pc = "start"
    /\ peptide = <<>>
    /\ pc' = "skipped"
    /\ UNCHANGED << peptide, modifications, max_substitutions, peptide_options,
                    reamidated, final_permutations, input_pep_lca, row_lcas,
                    summary_rows, variant_rows, beyondRow >>

\* The Phase-2 lists of the Phase-1 variants, one per variant (the loop of
\* process_row before it extends final_permutations with each).
ReamidatedLists(options, mods) ==
    [k \in 1..Len(options) |->
        generate_reamidation_permutations(
            options[k].perm, options[k].modified_positions, mods)]

\* process_row, from the budget to the deduplicated final_permutations.
GenerateVariants ==
    /\ pc = "start"
    /\ peptide # <<>>
    /\ LET m == extract_deamidation_count(modifications)
           options == generate_deamidation_permutations(peptide, m, modifications)
           lists == ReamidatedLists(options, modifications)
           phase2 == Flatten(lists)
           phase3 == add_pyro_glu_permutations(phase2, modifications)
       IN  /\ max_substitutions' = m
           /\ peptide_options' = options
           /\ reamidated' = lists
           /\ final_permutations' \in list_of_set(phase3)
    /\ pc' = "generated"
    /\ UNCHANGED << peptide, modifications, input_pep_lca, row_lcas,
                    summary_rows, variant_rows, beyondRow >>

\* process_row: the lookup of the input peptide and of the variants, chunk by
\* chunk; each request fails or is answered from the oracle's database.
ResolveLabels ==
    /\ pc = "generated"
    /\ \E db \in OracleDBs :
         /\ \E o \in RequestOutcomes(<<peptide>>, db) :
                input_pep_lca' = process_peptides(<<peptide>>, o)[1]
         /\ \E failed \in SUBSET (1..NumChunks(Len(final_permutations))) :
                row_lcas' = get_lcas_for_permutations(
                    final_permutations,
                    [c \in 1..NumChunks(Len(final_permutations)) |->
                        IF c \in failed THEN FailedRequest
                        ELSE [ok |-> TRUE,
                              results |-> OracleResults(db, Chunk(final_permutations, c))]])
    /\ pc' = "resolved"
    /\ UNCHANGED << peptide, modifications, max_substitutions, peptide_options,
                    reamidated, final_permutations, summary_rows, variant_rows,
                    beyondRow >>

\* write_results: one pass of its loop over the results.
WriteRow ==
    /\ pc = "resolved"
    /\ summary_rows' = Append(summary_rows,
           SummaryRecord(peptide, modifications, final_permutations, row_lcas,
                         input_pep_lca))
    /\ variant_rows' = variant_rows \o
           VariantRecords(peptide, modifications, final_permutations, row_lcas)
    /\ pc' = "written"
    /\ UNCHANGED << peptide, modifications, max_substitutions, peptide_options,
                    reamidated, final_permutations, input_pep_lca, row_lcas,
                    beyondRow >>

Next == SkipEmptyRow \/ GenerateVariants \/ ResolveLabels \/ WriteRow

Spec == Init /\ [][Next]_vars

\* The generator alone (process_row up to final_permutations), on longer
\* peptides.
GeneratorInit == RowRead(MaxLen) /\ NoCheck /\ NoResolverCall /\ NoPool

GeneratorNext == SkipEmptyRow \/ GenerateVariants

GeneratorSpec == GeneratorInit /\ [][GeneratorNext]_vars

(***************************************************************************)
(* extract_deamidation_count on the text of an annotation.  The text is    *)
(* the sequence of its lexemes: a digit, a whitespace character, a word, a *)
(* parenthesised group or a separator.  The empty text stands for the      *)
(* absent annotation (None) as well as for the empty one: both are falsy.  *)
(***************************************************************************)

\* The lexemes of the texts whose every spelling is tried.
Lexemes == {"2", " ", "Deamidated", "DEAMIDATION", "(NQ)", "(nQ)", ";"}

\* Annotations as search engines write them, and markers with as many digits
\* as int takes and with one more.
SampleTexts ==
    { << "2", " ", "Deamidated", " ", "(NQ)", ";", " ", "Deamidated", " ", "(NQ)" >>,
      << "1", "0", "\t", "Deamidation", "(NQ)" >>,
      << "Oxidation (M)", ";", " ", "Gln->pyro-Glu" >>,
      Zeros(int_max_str_digits - 1) \o << "3", " ", "Deamidated", " ", "(NQ)" >>,
      Zeros(int_max_str_digits + 1) \o << " ", "Deamidated", " ", "(NQ)" >> }

Texts == UNION {[1..n -> Lexemes] : n \in 0..MaxLexemes} \cup SampleTexts

\* The peptides the budget is passed on to Phase 1 with.
BudgetedPeptides == { << "N", "Q" >>, << "G" >> }

TextInit ==
    /\ peptide \in BudgetedPeptides
    /\ modifications \in Texts
    /\ pc = "start"
    /\ max_substitutions = 0
    /\ peptide_options = <<>>
    /\ reamidated = <<>>
    /\ final_permutations = <<>>
    /\ input_pep_lca = "unset"
    /\ row_lcas = <<>>
    /\ summary_rows = <<>>
    /\ variant_rows = <<>>
    /\ NoCheck
    /\ NoResolverCall
    /\ NoPool

\* max_substitutions = extract_deamidation_count(modifications).  Whether int
\* limits the digits it takes depends on the interpreter and its settings.
CountEvents ==
    /\ pc = "start"
    /\ \E limited \in BOOLEAN :
           IF limited /\ extract_deamidation_count_raises(modifications)
           THEN /\ pc' = "raised"
                /\ UNCHANGED max_substitutions
           ELSE /\ pc' = "counted"
                /\ max_substitutions' = extract_deamidation_count(modifications)
    /\ UNCHANGED << peptide, modifications, peptide_options, reamidated,
                    final_permutations, input_pep_lca, row_lcas, summary_rows,
                    variant_rows, beyondRow >>

\* peptide_options = generate_deamidation_permutations(peptide,
\* max_substitutions, modifications)
RunPhase1 ==
    /\ pc = "counted"
    /\ peptide_options' =
           generate_deamidation_permutations(peptide, max_substitutions, modifications)
    /\ pc' = "phase1"
    /\ UNCHANGED << peptide, modifications, max_substitutions, reamidated,
                    final_permutations, input_pep_lca, row_lcas, summary_rows,
                    variant_rows, beyondRow >>

TextNext == CountEvents \/ RunPhase1

TextSpec == TextInit /\ [][TextNext]_vars

(***************************************************************************)
(* deamidation_position_required on its own: any peptide, the empty one    *)
(* included, any annotation and any of the three verdicts                  *)
(***************************************************************************)

Verdicts == {"yes", "no", "NA"}

PositionCheckInit ==
    /\ RowRead(MaxLen)
    /\ identical_lcas \in Verdicts
    /\ deamid_check = "unset"
    /\ NoResolverCall
    /\ NoPool

\* deamid_check = deamidation_position_required(modifications_col, sequence_col,
\* identical_lcas)
CheckPosition ==
    /\ pc = "start"
    /\ deamid_check' = deamidation_position_required(modifications, peptide,
                                                     identical_lcas)
    /\ pc' = "checked"
    /\ UNCHANGED << peptide, modifications, max_substitutions, peptide_options,
                    reamidated, final_permutations, input_pep_lca, row_lcas,
                    summary_rows, variant_rows, identical_lcas, resolverVars,
                    poolVars >>

PositionCheckNext == CheckPosition

PositionCheckSpec == PositionCheckInit /\ [][PositionCheckNext]_vars

(***************************************************************************)
(* get_lcas_for_permutations on its own: lists of up to MaxPeptides         *)
(* peptides, with and without repeats, one GET after the other, every GET  *)
(* under the retry policy of make_session                                  *)
(***************************************************************************)

\* No row is in process_row.
NoRow ==
    /\ peptide = <<>>
    /\ modifications = <<>>
    /\ pc = "idle"
    /\ max_substitutions = 0
    /\ peptide_options = <<>>
    /\ reamidated = <<>>
    /\ final_permutations = <<>>
    /\ input_pep_lca = "unset"
    /\ row_lcas = <<>>
    /\ summary_rows = <<>>
    /\ variant_rows = <<>>

rowVars ==
    << peptide, modifications, pc, max_substitutions, peptide_options, reamidated,
       final_permutations, input_pep_lca, row_lcas, summary_rows, variant_rows >>

ResidueOrder == << "N", "Q", "D", "E", "G" >>

\* The n-th peptide of four residues, n read as a number in base 5.
NthPeptide(n) ==
    << ResidueOrder[((n \div 125) % 5) + 1], ResidueOrder[((n \div 25) % 5) + 1],
       ResidueOrder[((n \div 5) % 5) + 1], ResidueOrder[(n % 5) + 1] >>

\* The lengths of the lists passed in: those at and next to a multiple of
\* chunk_size, and the longest.
ListLengths ==
    {k \in 0..MaxPeptides :
        k % chunk_size \in {0, 1, chunk_size - 1} \/ k = MaxPeptides}

\* A list repeats its strings with one of these periods: every element the
\* same string, repeats inside a chunk, every chunk the same strings, repeats
\* across chunks at different offsets, no repeats.
RepeatPeriods == {1, 7, chunk_size, chunk_size + 50, MaxPeptides + 1}

PeptideLists ==
    { [i \in 1..k |-> NthPeptide((i - 1) % period)] :
          k \in ListLengths, period \in RepeatPeriods }

ResolverDBs == {"split", "nameless"}

ResolverInit ==
    /\ NoRow
    /\ NoCheck
    /\ NoPool
    /\ permutations \in PeptideLists
    /\ oracle_db \in ResolverDBs
    /\ resolver_pc = "looping"
    /\ chunk_start = 0
    /\ attempts = 0
    /\ last_status = NoAttempt
    /\ requests = <<>>
    /\ lca_map = EmptyMap
    /\ lcas = <<>>

\* An attempt answered with 200 and a body response.json() parses.
Answered == [status |-> 200, body |-> "json"]

\* An attempt without any response (connection error, timeout): status 0.
Unanswered == [status |-> 0, body |-> "error"]

\* What one attempt of the GET can end as: a status with a body that parses, a
\* 200 whose body does not parse, or no response at all.
AttemptEnds ==
    {[status |-> st, body |-> "json"] : st \in {200, 404} \cup status_forcelist}
    \cup {[status |-> 200, body |-> "unparseable"], Unanswered}

\* Variant of Retried: one retry more than total.
RetriedOnceMore(retries_made, ending) ==
    /\ ending.status \in status_forcelist \/ ending = Unanswered
    /\ retries_made < total + 1

\* The adapter tries again after this ending: a status of the force list or no
\* response, with retries left.
Retried(retries_made, ending) ==
    /\ ending.status \in status_forcelist \/ ending = Unanswered
    /\ retries_made < total

\* permutations[i : i + chunk_size] at the current i.
CurrentChunk == Chunk(permutations, (chunk_start \div chunk_size) + 1)

RECURSIVE MapUpdated(_, _, _, _)
\* for pep, lca in zip(chunk, chunk_lcas): lca_map[pep] = lca, after the first
\* n pairs.
MapUpdated(map, chunk, chunk_lcas, n) ==
    IF n = 0 THEN map
    ELSE (chunk[n] :> chunk_lcas[n]) @@ MapUpdated(map, chunk, chunk_lcas, n - 1)

\* Variant of LcasInOrder: one label for each key of the map, in the order the
\* keys were entered.
LcasOfKeys(map, perms) ==
    [i \in 1..Len(Distinct(perms, {})) |-> MapGet(map, Distinct(perms, {})[i])]

\* [lca_map.get(p, "no match") for p in permutations]
LcasInOrder(map, perms) == [i \in 1..Len(perms) |-> MapGet(map, perms[i])]

\* One pass of the loop of get_lcas_for_permutations, its call of
\* process_peptides ending as outcome.
ChunkProcessed(outcome) ==
    LET chunk == CurrentChunk
        chunk_lcas == process_peptides(chunk, outcome)
    IN  /\ requests' = Append(requests,
                [peptides |-> chunk, ok |-> outcome.ok, lcas |-> chunk_lcas])
        /\ lca_map' = MapUpdated(lca_map, chunk, chunk_lcas, Len(chunk))
        /\ chunk_start' = chunk_start + chunk_size
        /\ resolver_pc' = "looping"
        /\ UNCHANGED << permutations, oracle_db, attempts, lcas >>

\* process_peptides: session.get(url, params=params, timeout=10) is called for
\* the chunk at i; the adapter starts with its retries unused.
SendGet ==
    /\ resolver_pc = "looping"
    /\ chunk_start < Len(permutations)
    /\ resolver_pc' = "awaiting"
    /\ attempts' = 0
    /\ last_status' = NoAttempt
    /\ UNCHANGED << permutations, oracle_db, chunk_start, requests, lca_map, lcas,
                    rowVars, checkVars, poolVars >>

\* The GET is answered with 200 and a body that parses.
GetAnswered ==
    /\ resolver_pc = "awaiting"
    /\ ChunkProcessed([ok |-> TRUE,
                       results |-> OracleResults(oracle_db, CurrentChunk)])
    /\ last_status' = Answered
    /\ UNCHANGED << rowVars, checkVars, poolVars >>

\* The attempt ends badly and the adapter tries again.
GetRetried ==
    /\ resolver_pc = "awaiting"
    /\ \E ending \in AttemptEnds \ {Answered} :
          /\ Retried(attempts, ending)
          /\ last_status' = ending
    /\ attempts' = attempts + 1
    /\ UNCHANGED << permutations, oracle_db, resolver_pc, chunk_start, requests,
                    lca_map, lcas, rowVars, checkVars, poolVars >>

\* The attempt ends badly and is the last: session.get or raise_for_status or
\* response.json raises, process_peptides returns "no response" for the chunk.
GetFailed ==
    /\ resolver_pc = "awaiting"
    /\ ChunkProcessed(FailedRequest)
    /\ \E ending \in AttemptEnds \ {Answered} :
          /\ ~Retried(attempts, ending)
          /\ last_status' = ending
    /\ UNCHANGED << rowVars, checkVars, poolVars >>

\* The loop is over: return [lca_map.get(p, "no match") for p in permutations]
ReturnLcas ==
    /\ resolver_pc = "looping"
    /\ chunk_start >= Len(permutations)
    /\ lcas' = LcasInOrder(lca_map, permutations)
    /\ resolver_pc' = "returned"
    /\ UNCHANGED << permutations, oracle_db, chunk_start, attempts, last_status,
                    requests, lca_map, rowVars, checkVars, poolVars >>

ResolverNext == SendGet \/ GetAnswered \/ GetRetried \/ GetFailed \/ ReturnLcas

ResolverSpec == ResolverInit /\ [][ResolverNext]_vars

(***************************************************************************)
(* run_pipeline and write_results: the rows of an input file, each with    *)
(* its columns as read, through process_row on the threads of the pool     *)
(***************************************************************************)

\* A column of a row: row.get(name) is None when the row has no such column.
Absent == [present |-> FALSE, text |-> <<>>]

Field(text) == [present |-> TRUE, text |-> text]

Whitespace == {" ", "\t"}

RECURSIVE lstrip(_)
lstrip(text) ==
    IF text # <<>> /\ Head(text) \in Whitespace THEN lstrip(Tail(text)) ELSE text

\* Variant of strip: the text is taken as it stands.
strip_nothing(text) == text

\* str.strip(): the text without its leading and trailing whitespace.
strip(text) == Reverse(lstrip(Reverse(lstrip(text))))

\* row.get(a) or row.get(b) or ''
FirstTruthy(first, second) ==
    IF first.present /\ first.text # <<>> THEN first.text
    ELSE IF second.present /\ second.text # <<>> THEN second.text
    ELSE <<>>

\* (row.get('Sequence') or row.get('pep_seq') or '').strip()
PeptideOf(row) == strip(FirstTruthy(row.Sequence, row.pep_seq))

\* (row.get('Modifications') or row.get('pep_var_mod') or '').strip()
ModificationsOf(row) == strip(FirstTruthy(row.Modifications, row.pep_var_mod))

\* The rows of an input file: one without Sequence column and with an empty
\* pep_seq, one with a Sequence of whitespace, one with a padded peptide and
\* a padded annotation, one with the same peptide and annotation in the other
\* pair of columns, one with another peptide and an empty annotation, one with
\* the long number in front of the marker of its annotation.
RowPool ==
    << [Sequence |-> Absent, pep_seq |-> Field(<<>>),
       Modifications |-> Absent, pep_var_mod |-> Field(<<"Deamidated (NQ)">>)],
      [Sequence |-> Field(<<" ", "\t">>), pep_seq |-> Absent,
       Modifications |-> Field(<<"Deamidated (NQ)">>), pep_var_mod |-> Absent],
      [Sequence |-> Field(<<" ", "N", " ">>), pep_seq |-> Absent,
       Modifications |-> Field(<<" ", "Deamidated (NQ)">>), pep_var_mod |-> Absent],
      [Sequence |-> Absent, pep_seq |-> Field(<<"N">>),
       Modifications |-> Absent, pep_var_mod |-> Field(<<"Deamidated (NQ)", "\t">>)],
      [Sequence |-> Absent, pep_seq |-> Field(<<"G">>),
       Modifications |-> Absent, pep_var_mod |-> Field(<<>>)],
      [Sequence |-> Field(<<"Q">>), pep_seq |-> Absent,
       Modifications |-> Field(<<LongNumber, " ", "Deamidated", " ", "(NQ)">>),
       pep_var_mod |-> Absent] >>

\* The inputs: up to MaxRows rows in a row of that file, from any of its rows
\* on and starting over at its end.
RowLists ==
    { [i \in 1..n |-> RowPool[((first + i - 2) % Len(RowPool)) + 1]] :
          first \in 1..Len(RowPool), n \in 0..MaxRows }

PoolDBs == {"split"}

\* A worker thread that is in no call of process_row.
IdleTask ==
    [stage |-> "idle", index |-> 0, session |-> 0, peptide |-> <<>>,
     modifications |-> <<>>, final_permutations |-> <<>>, input_pep_lca |-> "unset"]

\* return None, as the result of the future of row r.
NoneOf(r, row) ==
    [none |-> TRUE, index |-> r, row |-> row, final_permutations |-> <<>>,
     row_lcas |-> <<>>, input_pep_lca |-> "unset"]

PoolInit ==
    /\ NoRow
    /\ NoCheck
    /\ NoResolverCall
    /\ rows \in RowLists
    /\ num_threads \in 1..MaxThreads
    /\ pool_db \in PoolDBs
    /\ pool_pc = "running"
    /\ next_row = 1
    /\ futures = [r \in 1..Len(rows) |->
                     [state |-> "pending", thread |-> 0, result |-> NoneOf(r, rows[r])]]
    /\ tasks = [w \in 1..num_threads |-> IdleTask]
    /\ thread_local = [slot \in 1..num_threads |-> 0]
    /\ sessions = <<>>
    /\ oracle_calls = {}
    /\ generated = {}
    /\ results = <<>>
    /\ collected = {}

\* Variant of SessionSlot: one slot for all threads.
SessionSlotShared(w) == 1

\* _thread_local = threading.local(): thread w reads and writes its own slot.
SessionSlot(w) == w

\* _get_thread_session() on thread w: make_session() if the slot has no
\* session yet.
GetThreadSession(w) ==
    IF thread_local[SessionSlot(w)] = 0
    THEN /\ sessions' = Append(sessions, w)
         /\ thread_local' = [thread_local EXCEPT ![SessionSlot(w)] = Len(sessions) + 1]
    ELSE UNCHANGED << sessions, thread_local >>

\* Thread w of the pool has been started: it has taken a row.
Started(w) == \E r \in 1..Len(futures) : futures[r].thread = w

\* A free worker thread takes the next submitted row: a thread that ran a row
\* before, or the next thread the executor starts (it starts them in order, up
\* to max_workers).
TakesRow(w) ==
    /\ pool_pc \in {"running", "unwinding"}
    /\ tasks[w].stage = "idle"
    /\ next_row <= Len(rows)
    /\ Started(w) \/ \A v \in 1..(w - 1) : Started(v)

\* process_row on a row without peptide: return None.
SkipBlankRow(w) ==
    /\ TakesRow(w)
    /\ PeptideOf(rows[next_row]) = <<>>
    /\ GetThreadSession(w)
    /\ futures' = [futures EXCEPT ![next_row] =
                       [state |-> "finished", thread |-> w,
                        result |-> NoneOf(next_row, rows[next_row])]]
    /\ next_row' = next_row + 1
    /\ UNCHANGED << rows, num_threads, pool_db, pool_pc, tasks, oracle_calls,
                    generated, results, collected, rowVars, checkVars, resolverVars >>

\* process_row on a row whose annotation holds a number of more digits than
\* int converts, on an interpreter that limits them: extract_deamidation_count
\* raises ValueError, which the future keeps.
RaiseInRow(w) ==
    /\ TakesRow(w)
    /\ PeptideOf(rows[next_row]) # <<>>
    /\ extract_deamidation_count_raises(ModificationsOf(rows[next_row]))
    /\ GetThreadSession(w)
    /\ futures' = [futures EXCEPT ![next_row].state = "raised",
                                  ![next_row].thread = w]
    /\ next_row' = next_row + 1
    /\ UNCHANGED << rows, num_threads, pool_db, pool_pc, tasks, oracle_calls,
                    generated, results, collected, rowVars, checkVars, resolverVars >>

\* process_row up to the deduplicated final_permutations, where
\* extract_deamidation_count returns: on any annotation if the interpreter
\* sets no limit to the digits of int.
StartRow(w) ==
    /\ TakesRow(w)
    /\ PeptideOf(rows[next_row]) # <<>>
    /\ GetThreadSession(w)
    /\ LET pep == PeptideOf(rows[next_row])
           mods == ModificationsOf(rows[next_row])
           options == generate_deamidation_permutations(
                          pep, extract_deamidation_count(mods), mods)
           phase3 == add_pyro_glu_permutations(
                         Flatten(ReamidatedLists(options, mods)), mods)
       IN  \E final \in list_of_set(phase3) :
               tasks' = [tasks EXCEPT ![w] =
                            [stage |-> "lookup_input", index |-> next_row,
                             session |-> thread_local'[SessionSlot(w)],
                             peptide |-> pep, modifications |-> mods,
                             final_permutations |-> final,
                             input_pep_lca |-> "unset"]]
    /\ futures' = [futures EXCEPT ![next_row].state = "running",
                                  ![next_row].thread = w]
    /\ generated' = generated \cup {next_row}
    /\ next_row' = next_row + 1
    /\ UNCHANGED << rows, num_threads, pool_db, pool_pc, oracle_calls, results,
                    collected, rowVars, checkVars, resolverVars >>

\* process_row: input_pep_lca = process_peptides([peptide], session=session)[0]
LookupInput(w) ==
    /\ pool_pc \in {"running", "unwinding"}
    /\ tasks[w].stage = "lookup_input"
    /\ \E o \in RequestOutcomes(<<tasks[w].peptide>>, pool_db) :
          /\ tasks' = [tasks EXCEPT
                          ![w].input_pep_lca =
                              process_peptides(<<tasks[w].peptide>>, o)[1],
                          ![w].stage = "lookup_variants"]
          /\ oracle_calls' = oracle_calls \cup
                 {[index |-> tasks[w].index, thread |-> w,
                   session |-> tasks[w].session, chunk |-> 0, ok |-> o.ok]}
    /\ UNCHANGED << rows, num_threads, pool_db, pool_pc, next_row, futures,
                    thread_local, sessions, generated, results, collected,
                    rowVars, checkVars, resolverVars >>

\* process_row: row_lcas = get_lcas_for_permutations(final_permutations,
\* session), and the return of the result.
LookupVariants(w) ==
    /\ pool_pc \in {"running", "unwinding"}
    /\ tasks[w].stage = "lookup_variants"
    /\ LET final == tasks[w].final_permutations
           chunks == 1..NumChunks(Len(final))
       IN  \E failed \in SUBSET chunks :
               /\ futures' = [futures EXCEPT ![tasks[w].index] =
                      [state |-> "finished", thread |-> w,
                       result |->
                          [none |-> FALSE, index |-> tasks[w].index,
                           row |-> rows[tasks[w].index],
                           final_permutations |-> final,
                           row_lcas |-> get_lcas_for_permutations(final,
                               [c \in chunks |->
                                   IF c \in failed THEN FailedRequest
                                   ELSE [ok |-> TRUE,
                                         results |-> OracleResults(pool_db,
                                                                   Chunk(final, c))]]),
                           input_pep_lca |-> tasks[w].input_pep_lca]]]
               /\ oracle_calls' = oracle_calls \cup
                      {[index |-> tasks[w].index, thread |-> w,
                        session |-> tasks[w].session, chunk |-> c,
                        ok |-> c \notin failed] : c \in chunks}
    /\ tasks' = [tasks EXCEPT ![w] = IdleTask]
    /\ UNCHANGED << rows, num_threads, pool_db, pool_pc, next_row, thread_local,
                    sessions, generated, results, collected, rowVars, checkVars,
                    resolverVars >>

\* result = future.result(); if result is None: continue;
\* results.append(result)
Collected(list, result) == IF result.none THEN list ELSE Append(list, result)

\* for future in as_completed(futures): one pass, on a future that is done.
CollectResult ==
    /\ pool_pc = "running"
    /\ \E r \in (1..Len(rows)) \ collected :
          /\ futures[r].state = "finished"
          /\ results' = Collected(results, futures[r].result)
          /\ collected' = collected \cup {r}
    /\ UNCHANGED << rows, num_threads, pool_db, pool_pc, next_row, futures, tasks,
                    thread_local, sessions, oracle_calls, generated, rowVars,
                    checkVars, resolverVars >>

\* result = future.result() on a future that keeps an exception: it is raised
\* again in run_pipeline, past the loop and into the exit of the with block.
ResultRaises ==
    /\ pool_pc = "running"
    /\ \E r \in (1..Len(rows)) \ collected : futures[r].state = "raised"
    /\ pool_pc' = "unwinding"
    /\ UNCHANGED << rows, num_threads, pool_db, next_row, futures, tasks,
                    thread_local, sessions, oracle_calls, generated, results,
                    collected, rowVars, checkVars, resolverVars >>

\* The exit of the with block, executor.shutdown(wait=True), has waited for
\* every submitted row: the exception leaves run_pipeline and main, which do
\* not catch it, and nothing is returned or written.
RunAborted ==
    /\ pool_pc = "unwinding"
    /\ \A r \in 1..Len(rows) : futures[r].state \in {"finished", "raised"}
    /\ pool_pc' = "raised"
    /\ UNCHANGED << rows, num_threads, pool_db, next_row, futures, tasks,
                    thread_local, sessions, oracle_calls, generated, results,
                    collected, rowVars, checkVars, resolverVars >>

\* as_completed is exhausted, the executor shuts down: return results
ReturnResults ==
    /\ pool_pc = "running"
    /\ collected = 1..Len(rows)
    /\ pool_pc' = "returned"
    /\ UNCHANGED << rows, num_threads, pool_db, next_row, futures, tasks,
                    thread_local, sessions, oracle_calls, generated, results,
                    collected, rowVars, checkVars, resolverVars >>

\* main: write_results(results, ...), its loop over all results.
WriteResults ==
    /\ pool_pc = "returned"
    /\ summary_rows' =
           [k \in 1..Len(results) |->
               SummaryRecord(PeptideOf(results[k].row), ModificationsOf(results[k].row),
                             results[k].final_permutations, results[k].row_lcas,
                             results[k].input_pep_lca)]
    /\ variant_rows' =
           Flatten([k \in 1..Len(results) |->
               VariantRecords(PeptideOf(results[k].row), ModificationsOf(results[k].row),
                              results[k].final_permutations, results[k].row_lcas)])
    /\ pool_pc' = "written"
    /\ UNCHANGED << rows, num_threads, pool_db, next_row, futures, tasks,
                    thread_local, sessions, oracle_calls, generated, results,
                    collected, peptide, modifications, pc, max_substitutions,
                    peptide_options, reamidated, final_permutations, input_pep_lca,
                    row_lcas, checkVars, resolverVars >>

PoolNext ==
    \/ \E w \in 1..num_threads :
           \/ SkipBlankRow(w) \/ RaiseInRow(w) \/ StartRow(w)
           \/ LookupInput(w) \/ LookupVariants(w)
    \/ CollectResult
    \/ ResultRaises
    \/ RunAborted
    \/ ReturnResults
    \/ WriteResults

PoolSpec == PoolInit /\ [][PoolNext]_vars

(***************************************************************************)
(* What the properties speak of, read off the row itself                   *)
(***************************************************************************)

\* process_row went past the generator.
Generated == pc \in {"generated", "resolved", "written"}

\* The annotation contains "pyro", whatever the case.
MentionsPyro ==
    \E i \in 1..Len(modifications) :
        modifications[i] \in {"Gln->pyro-Glu", "Glu->pyro-Glu", "Pyro-carbamidomethyl (C)"}

\* The leading residue is shut out of Phases 1 and 2.
NTerminalExcluded ==
    peptide # <<>> /\ MentionsPyro /\ peptide[1] \in {"Q", "E"}

\* The candidate N- and Q-positions of Phase 1.
CandidateN == {i \in 1..Len(peptide) : peptide[i] = "N"}

CandidateQ ==
    {i \in 1..Len(peptide) : peptide[i] = "Q" /\ ~(i = 1 /\ NTerminalExcluded)}

\* The peptide with the positions of A changed N->D and those of B changed Q->E.
WithDeamidated(A, B) ==
    [i \in 1..Len(peptide) |->
        IF i \in A THEN "D" ELSE IF i \in B THEN "E" ELSE peptide[i]]

RECURSIVE Binomial(_, _)
Binomial(n, k) ==
    IF k = 0 THEN 1
    ELSE IF n = 0 THEN 0
    ELSE Binomial(n - 1, k - 1) + Binomial(n - 1, k)

\* The sum over i in 0..min(m,n) and j in 0..min(m-i,q) of C(n,i)*C(q,j).
Phase1Count(n, q, m) ==
    SumSeq([a \in 1..(Min(m, n) + 1) |->
        SumSeq([b \in 1..(Min(m - (a - 1), q) + 1) |->
            Binomial(n, a - 1) * Binomial(q, b - 1)])])

\* The D/E positions of the k-th Phase-1 variant that Phase 2 may revert.
Eligible(k) ==
    {i \in 1..Len(peptide_options[k].perm) :
        /\ peptide_options[k].perm[i] \in {"D", "E"}
        /\ i \notin Range(peptide_options[k].modified_positions)
        /\ ~(i = 1 /\ NTerminalExcluded)}

\* v with the D of S reverted to N and the E of S reverted to Q.
Reverted(v, S) ==
    [i \in 1..Len(v) |->
        IF i \in S THEN (IF v[i] = "D" THEN "N" ELSE "Q") ELSE v[i]]

RECURSIVE Pow2(_)
Pow2(n) == IF n = 0 THEN 1 ELSE 2 * Pow2(n - 1)

\* The distinct strings of Phase 2 (what process_row hands to Phase 3) and of
\* the final list.
Phase2Set == Range(Flatten(reamidated))

FinalSet == Range(final_permutations)

GlnMatch ==
    /\ peptide # <<>> /\ peptide[1] = "Q"
    /\ \E i \in 1..Len(modifications) : modifications[i] = "Gln->pyro-Glu"

GluMatch ==
    /\ peptide # <<>> /\ peptide[1] = "E"
    /\ \E i \in 1..Len(modifications) : modifications[i] = "Glu->pyro-Glu"

\* v with its leading residue replaced.
LeadingReplaced(v, residue) == [v EXCEPT ![1] = residue]

(***************************************************************************)
(* The generator                                                           *)
(***************************************************************************)

\* C1: Phase 1 returns exactly one variant for each pair (A, B) of a subset A of
\* the candidate N-positions and a subset B of the candidate Q-positions with
\* |A| + |B| <= m, that variant being the peptide with A changed N->D and B
\* changed Q->E, tagged with exactly the positions of A and B; nothing else is
\* returned; the number of variants is the double sum of binomials; and it is
\* the unmodified peptide alone, with no position, when there is no candidate.
Phase1ExhaustiveWithinBudget ==
    Generated =>
        LET m == max_substitutions
            Pairs == {pr \in (SUBSET CandidateN) \X (SUBSET CandidateQ) :
                         Cardinality(pr[1]) + Cardinality(pr[2]) <= m}
            Tagged(k) == Range(peptide_options[k].modified_positions)
            Ks == 1..Len(peptide_options)
        IN  /\ \A pr \in Pairs :
                 /\ Cardinality({k \in Ks : Tagged(k) = pr[1] \cup pr[2]}) = 1
                 /\ \A k \in Ks :
                        Tagged(k) = pr[1] \cup pr[2] =>
                            /\ peptide_options[k].perm = WithDeamidated(pr[1], pr[2])
                            /\ peptide_options[k].count
                                   = Cardinality(pr[1]) + Cardinality(pr[2])
                            /\ Len(peptide_options[k].modified_positions)
                                   = Cardinality(pr[1]) + Cardinality(pr[2])
            /\ \A k \in Ks : \E pr \in Pairs : Tagged(k) = pr[1] \cup pr[2]
            /\ Len(peptide_options)
                   = Phase1Count(Cardinality(CandidateN), Cardinality(CandidateQ), m)
            /\ (CandidateN = {} /\ CandidateQ = {}) =>
                   peptide_options
                       = << [perm |-> peptide, count |-> 0, modified_positions |-> <<>>] >>

\* C1's case: N and Q candidates, and a positive budget smaller than their number.
Phase1BudgetBinds ==
    /\ pc = "generated"
    /\ CandidateN # {} /\ CandidateQ # {}
    /\ max_substitutions >= 1
    /\ max_substitutions < Cardinality(CandidateN) + Cardinality(CandidateQ)
    /\ Len(peptide_options) >= 3

\* C2: every string Phase 2 returns for a Phase-1 variant has, at every position
\* of the variant's modified positions, the variant's residue: the D or E that
\* Phase 1 put there, not the original peptide's N or Q.
FrozenPositionsNeverReverted ==
    Generated =>
        \A k \in 1..Len(peptide_options) :
            \A j \in 1..Len(reamidated[k]) :
                \A i \in Range(peptide_options[k].modified_positions) :
                    /\ reamidated[k][j][i] = peptide_options[k].perm[i]
                    /\ reamidated[k][j][i] \in {"D", "E"}
                    /\ reamidated[k][j][i] # peptide[i]

\* C2's case: a variant with modified positions that Phase 2 expands further.
FrozenVariantExpanded ==
    /\ pc = "generated"
    /\ \E k \in 1..Len(peptide_options) :
           /\ peptide_options[k].modified_positions # <<>>
           /\ Len(reamidated[k]) >= 2

\* C3: for each Phase-1 variant Phase 2 returns 2^(d+e) strings, all different,
\* one for each subset of the eligible D/E positions, whatever the budget; just
\* the variant itself when no position is eligible.
Phase2UncappedPowerset ==
    Generated =>
        \A k \in 1..Len(peptide_options) :
            /\ Len(reamidated[k]) = Pow2(Cardinality(Eligible(k)))
            /\ Cardinality(Range(reamidated[k])) = Len(reamidated[k])
            /\ Range(reamidated[k])
                   = {Reverted(peptide_options[k].perm, S) : S \in SUBSET Eligible(k)}
            /\ Eligible(k) = {} => reamidated[k] = <<peptide_options[k].perm>>

\* C3's case: budget 1, and a variant with a modified position and two eligible
\* positions, expanded to four strings.
Phase2BeyondBudget ==
    /\ pc = "generated"
    /\ max_substitutions = 1
    /\ \E k \in 1..Len(peptide_options) :
           /\ peptide_options[k].modified_positions # <<>>
           /\ Cardinality(Eligible(k)) = 2
           /\ Len(reamidated[k]) = 4

\* C4: when the annotation contains "pyro" and the peptide starts with Q or E,
\* the leading position is no modified position and every string of Phases 1
\* and 2 starts with the peptide's leading residue; and no emitted string holds
\* the placeholder X unless the peptide holds it.
NTerminalNeverCandidate ==
    Generated =>
        /\ NTerminalExcluded =>
               \A k \in 1..Len(peptide_options) :
                   /\ 1 \notin Range(peptide_options[k].modified_positions)
                   /\ peptide_options[k].perm[1] = peptide[1]
                   /\ \A j \in 1..Len(reamidated[k]) : reamidated[k][j][1] = peptide[1]
        /\ \A s \in {peptide_options[k].perm : k \in 1..Len(peptide_options)}
                       \cup Phase2Set \cup FinalSet :
               "X" \in Range(s) => "X" \in Range(peptide)

\* C4's case: a leading Q under a pyro annotation, with both phases at work on
\* the other positions.
NTerminalMaskedAtWork ==
    /\ pc = "generated"
    /\ NTerminalExcluded
    /\ peptide[1] = "Q"
    /\ Len(peptide_options) >= 2
    /\ \E k \in 1..Len(peptide_options) : Len(reamidated[k]) >= 2

\* C5: for a Q-start peptide tagged Gln->pyro-Glu the final set is the Phase-2
\* set, every variant of which starts with Q, plus each variant with index 0
\* replaced by E; likewise E->Q for an E-start peptide tagged Glu->pyro-Glu;
\* otherwise the final set is the Phase-2 set.
Phase3LeadingResidueOnly ==
    Generated =>
        /\ GlnMatch =>
               /\ \A v \in Phase2Set : v[1] = "Q"
               /\ FinalSet = Phase2Set \cup {LeadingReplaced(v, "E") : v \in Phase2Set}
        /\ GluMatch =>
               /\ \A v \in Phase2Set : v[1] = "E"
               /\ FinalSet = Phase2Set \cup {LeadingReplaced(v, "Q") : v \in Phase2Set}
        /\ (~GlnMatch /\ ~GluMatch) => FinalSet = Phase2Set

\* C5's case: a Q-start peptide tagged Gln->pyro-Glu with another Q further on
\* and several Phase-2 variants.
Phase3WithLaterQ ==
    /\ pc = "generated"
    /\ GlnMatch
    /\ \E i \in 2..Len(peptide) : peptide[i] = "Q"
    /\ Cardinality(Phase2Set) >= 2
    /\ Cardinality(FinalSet) >= 4

\* C6: every string handed to Phase 3 is in its result, and the result has at
\* most twice as many distinct strings.
Phase3KeepsAndAtMostDoubles ==
    Generated =>
        /\ Phase2Set \subseteq FinalSet
        /\ Cardinality(FinalSet) <= 2 * Cardinality(Phase2Set)

\* C6's case: Phase 3 applied to an E-start peptide and added strings.
Phase3AddedToEStart ==
    /\ pc = "generated"
    /\ GluMatch
    /\ Cardinality(Phase2Set) >= 2
    /\ Cardinality(FinalSet) > Cardinality(Phase2Set)

\* C7 as stated: whenever the tag and the leading residue match, the final set
\* is strictly smaller than twice the Phase-2 set.
Phase3MatchNeverDoubles ==
    (Generated /\ (GlnMatch \/ GluMatch)) =>
        Cardinality(FinalSet) < 2 * Cardinality(Phase2Set)

\* C7 as amended: the final set is exactly twice the Phase-2 set when the tag
\* and the leading residue match, and exactly the Phase-2 set otherwise.
Phase3DoublesExactlyOnMatch ==
    Generated =>
        /\ (GlnMatch \/ GluMatch) =>
               Cardinality(FinalSet) = 2 * Cardinality(Phase2Set)
        /\ (~GlnMatch /\ ~GluMatch) =>
               Cardinality(FinalSet) = Cardinality(Phase2Set)

\* C7's case: a match, and a final set of exactly twice the Phase-2 variants.
Phase3DoubledOnMatch ==
    /\ pc = "generated"
    /\ GlnMatch
    /\ max_substitutions >= 1
    /\ Cardinality(Phase2Set) >= 2
    /\ Cardinality(FinalSet) = 2 * Cardinality(Phase2Set)

(***************************************************************************)
(* The row through the lookups and the writer                              *)
(***************************************************************************)

Written == pc = "written"

\* The peptide holds no N and no Q, and the budget is 0.
NoNQAndNoBudget ==
    /\ peptide # <<>>
    /\ \A i \in 1..Len(peptide) : peptide[i] \notin {"N", "Q"}
    /\ max_substitutions = 0

\* The D/E positions of the input peptide that Phase 2 may revert.
ReamidatablePositions ==
    {i \in 1..Len(peptide) :
        peptide[i] \in {"D", "E"} /\ ~(i = 1 /\ NTerminalExcluded)}

\* A label that is a taxon: neither of the two sentinels.
Usable(lca) == lca \notin {"no match", "no response"}

UsableIndices == {i \in 1..Len(row_lcas) : Usable(row_lcas[i])}

\* C8 as stated: a peptide without N and Q, with budget 0, yields exactly one
\* variant, the input peptide, and the row's identical_LCAs is NA.
RoundTripWithoutNQ ==
    (Written /\ NoNQAndNoBudget) =>
        /\ final_permutations = <<peptide>>
        /\ summary_rows[1].identical_LCAs = "NA"

\* C8 as amended: a peptide without N and Q, with budget 0, yields exactly one
\* variant, the input peptide, exactly when it has no D or E that Phase 2 may
\* revert and Phase 3 does not apply; the row's identical_LCAs is then NA.
RoundTripWithoutReamidation ==
    (Written /\ NoNQAndNoBudget) =>
        /\ (final_permutations = <<peptide>>)
               <=> (ReamidatablePositions = {} /\ ~GlnMatch /\ ~GluMatch)
        /\ (final_permutations = <<peptide>>) =>
               /\ Len(summary_rows) = 1
               /\ summary_rows[1].identical_LCAs = "NA"

\* C8's case: such a peptide, its single variant resolved to a taxon.
RoundTripResolved ==
    /\ Written
    /\ NoNQAndNoBudget
    /\ final_permutations = <<peptide>>
    /\ row_lcas = <<"Homo">>

\* C9: the summary counts a variant only if its label is neither "no match" nor
\* "no response": the matched count is the number of usable labels, no failed
\* lookup is among the labels or the variants listed, and fewer than two usable
\* labels give NA.
FailedLookupsFilteredLikeNoMatch ==
    Written =>
        /\ summary_rows[1].all_permutations_with_LCAs = Cardinality(UsableIndices)
        /\ "no response" \notin Range(summary_rows[1].all_permutation_LCAs)
        /\ Range(summary_rows[1].permutations_yielding_LCAs)
               = {final_permutations[i] : i \in UsableIndices}
        /\ Cardinality(UsableIndices) <= 1 => summary_rows[1].identical_LCAs = "NA"

\* C10: a row all of whose requests failed still gets exactly one summary
\* record, with identical_LCAs = NA, however many variants it has.
OracleDownRowIsNA ==
    (/\ Written
     /\ input_pep_lca = "no response"
     /\ \A i \in 1..Len(row_lcas) : row_lcas[i] = "no response") =>
        /\ Len(summary_rows) = 1
        /\ summary_rows[1].identical_LCAs = "NA"

(***************************************************************************)
(* The classifier                                                          *)
(***************************************************************************)

\* C11: identical_LCAs is NA if fewer than two variants have a usable label, yes
\* if at least two have one and all usable labels are the same text, and no
\* otherwise.
VerdictFromUsableLabels ==
    Written =>
        summary_rows[1].identical_LCAs =
            (IF Cardinality(UsableIndices) < 2 THEN "NA"
             ELSE IF Cardinality({row_lcas[i] : i \in UsableIndices}) = 1 THEN "yes"
             ELSE "no")

\* The deamidation events the annotation reports: one for each "Deamidated (NQ)"
\* entry, two for each "2 Deamidated (NQ)" entry.
EventCount ==
    Cardinality({i \in 1..Len(modifications) : modifications[i] = "Deamidated (NQ)"})
    + 2 * Cardinality({i \in 1..Len(modifications) :
                          modifications[i] = "2 Deamidated (NQ)"})

\* The N and Q residues of the peptide, a leading Q left out when the
\* annotation mentions pyro.
DeamidatableCount == Cardinality(CandidateN) + Cardinality(CandidateQ)

Checked == pc = "checked"

\* C12: deamidation_position_required returns "required" if and only if the
\* peptide is non-empty, the verdict is "no", the event count is positive and
\* the event count is strictly less than the number of deamidatable residues;
\* in every other case it returns "not required".
PositionRequiredExactly ==
    Checked =>
        /\ deamid_check \in {"required", "not required"}
        /\ (deamid_check = "required") <=>
               /\ peptide # <<>>
               /\ identical_lcas = "no"
               /\ EventCount > 0
               /\ EventCount < DeamidatableCount

\* C12's case: a verdict of "no" and fewer events than deamidatable residues on
\* a peptide whose leading Q is left out of the count.
PositionRequiredReturned ==
    /\ Checked
    /\ deamid_check = "required"
    /\ NTerminalExcluded
    /\ EventCount = 1
    /\ DeamidatableCount = 2

(***************************************************************************)
(* The resolver                                                            *)
(***************************************************************************)

Returned == resolver_pc = "returned"

\* The request that carries input position i (from 1), and the place of the
\* position in it.
RequestOf(i) == ((i - 1) \div chunk_size) + 1

PlaceInRequest(i) == ((i - 1) % chunk_size) + 1

\* ceil(k / chunk_size)
RequestsNeeded(k) ==
    IF k % chunk_size = 0 THEN k \div chunk_size ELSE (k \div chunk_size) + 1

\* C13: whatever the list passed in, repeats included, every position of a
\* chunk whose request failed is "no response" in the list returned, every
\* position of any other chunk carries the result of its own chunk's request,
\* and the chunks after a failed one are still requested.
ChunkFailureIsolated ==
    Returned =>
        /\ Len(requests) = RequestsNeeded(Len(permutations))
        /\ \A i \in 1..Len(permutations) :
               IF requests[RequestOf(i)].ok
               THEN lcas[i] = requests[RequestOf(i)].lcas[PlaceInRequest(i)]
               ELSE lcas[i] = "no response"

\* C14: a list of k peptides is sent in exactly ceil(k / 100) requests, none
\* for k = 0; request c carries the elements at positions 100*c to
\* min(100*c + 99, k - 1) in their order, so at most 100 peptides, and every
\* position is carried by exactly one request.
ChunkingExact ==
    /\ Len(requests) <= RequestsNeeded(Len(permutations))
    /\ Returned => Len(requests) = RequestsNeeded(Len(permutations))
    /\ \A c \in 1..Len(requests) :
           /\ Len(requests[c].peptides)
                  = Min(chunk_size, Len(permutations) - chunk_size * (c - 1))
           /\ \A j \in 1..Len(requests[c].peptides) :
                  requests[c].peptides[j] = permutations[chunk_size * (c - 1) + j]

\* C14's case: 250 peptides sent in three requests of 100, 100 and 50.
ThreeRequestsFor250 ==
    /\ Returned
    /\ Len(permutations) = 250
    /\ [c \in 1..Len(requests) |-> Len(requests[c].peptides)] = <<100, 100, 50>>

\* The label the oracle's database gives a peptide: its taxon, "no match" if
\* the response leaves the peptide or its taxon name out.
OracleLabel(db, p) ==
    IF OracleTaxon(db, p) \in {"absent", "unnamed"} THEN "no match"
    ELSE OracleTaxon(db, p)

AllAnswered == \A c \in 1..Len(requests) : requests[c].ok

\* C15: the list returned is as long as the list passed in, and when every
\* request succeeded its i-th element is the oracle's label for the i-th
\* peptide passed in, "no match" if the response leaves it out.
ResultsAligned ==
    Returned =>
        /\ Len(lcas) = Len(permutations)
        /\ AllAnswered =>
               \A i \in 1..Len(permutations) :
                   lcas[i] = OracleLabel(oracle_db, permutations[i])

\* C15's case: more than two chunks of peptides with repeats across the
\* chunks, every request answered, taxa and "no match" among the labels.
AlignedAcrossChunks ==
    /\ Returned
    /\ AllAnswered
    /\ Len(requests) = 3
    /\ permutations[1] = permutations[chunk_size + 51]
    /\ lcas[1] = "Homo"
    /\ lcas[3] = "no match"

\* C16: in the list process_peptides returns for an answered request, the
\* peptides the response leaves out or holds without a taxon name, and only
\* those, are "no match" and none is "no response"; in the list it returns for
\* a failed request every peptide is "no response".
SentinelsKeptApart ==
    \A c \in 1..Len(requests) :
        /\ Len(requests[c].lcas) = Len(requests[c].peptides)
        /\ \A j \in 1..Len(requests[c].peptides) :
               IF requests[c].ok
               THEN /\ (requests[c].lcas[j] = "no match")
                          <=> (OracleTaxon(oracle_db, requests[c].peptides[j])
                                   \in {"absent", "unnamed"})
                    /\ requests[c].lcas[j] # "no response"
               ELSE requests[c].lcas[j] = "no response"

\* C16's case: a failed request, and an answered one whose response leaves a
\* peptide out, holds one without a taxon name and names the taxon of another.
BothSentinelsReturned ==
    \E c \in 1..Len(requests) : \E d \in 1..Len(requests) :
        /\ ~requests[c].ok
        /\ requests[d].ok
        /\ "Homo" \in Range(requests[d].lcas)
        /\ \E j \in 1..Len(requests[d].peptides) :
               OracleTaxon(oracle_db, requests[d].peptides[j]) = "absent"
        /\ \E j \in 1..Len(requests[d].peptides) :
               OracleTaxon(oracle_db, requests[d].peptides[j]) = "unnamed"

\* A step in which an attempt of a GET ends.
AttemptEnded == resolver_pc = "awaiting" /\ last_status' # last_status

Transient(ending) == ending.status \in {429, 500, 502, 503, 504}

\* C17: a GET that keeps ending with a transient status (429, 500, 502, 503,
\* 504) is retried up to 3 times, 4 attempts at most, and only then is its chunk
\* marked failed with "no response"; an attempt that succeeds resolves the
\* chunk and ends the attempts made for it.
RetriedBeforeFailure ==
    [][AttemptEnded =>
          /\ attempts <= 3
          /\ attempts' <= 3
          /\ (Transient(last_status') /\ attempts < 3) =>
                 /\ attempts' = attempts + 1
                 /\ resolver_pc' = "awaiting"
                 /\ requests' = requests
          /\ (Transient(last_status') /\ attempts = 3) =>
                 /\ resolver_pc' = "looping"
                 /\ Len(requests') = Len(requests) + 1
                 /\ ~requests'[Len(requests')].ok
                 /\ Range(requests'[Len(requests')].lcas) = {"no response"}
          /\ (last_status' = Answered) =>
                 /\ resolver_pc' = "looping"
                 /\ attempts' = attempts
                 /\ Len(requests') = Len(requests) + 1
                 /\ requests'[Len(requests')].ok
                 /\ "no response" \notin Range(requests'[Len(requests')].lcas)
    ]_vars

\* C17's cases: a chunk marked failed after three retries, the last attempt
\* ending with a transient status, after a chunk resolved on a retry.
FailedAfterThreeRetries ==
    /\ resolver_pc = "looping"
    /\ Len(requests) = 2
    /\ requests[1].ok
    /\ ~requests[2].ok
    /\ attempts = 3
    /\ Transient(last_status)

(***************************************************************************)
(* The worker pool                                                         *)
(***************************************************************************)

\* The column is missing, empty or holds only whitespace.
Blank(column) ==
    ~column.present \/ \A i \in 1..Len(column.text) : column.text[i] \in {" ", "\t"}

\* The rows whose sequence field is absent, empty or only whitespace, and the
\* others.
BlankRows == {r \in 1..Len(rows) : Blank(rows[r].Sequence) /\ Blank(rows[r].pep_seq)}

PeptideRows == (1..Len(rows)) \ BlankRows

PoolWritten == pool_pc = "written"

\* C18: for a row whose sequence field is absent, empty or only whitespace no
\* variants are generated, no oracle request is made and no result is
\* returned; the output holds no per-variant record and no summary record of
\* it, and every other row is processed: it has its summary record.
BlankRowsSkipped ==
    /\ \A r \in BlankRows :
           /\ r \notin generated
           /\ \A call \in oracle_calls : call.index # r
           /\ futures[r].state = "finished" => futures[r].result.none
           /\ \A k \in 1..Len(results) : results[k].index # r
    /\ PoolWritten =>
           /\ Len(summary_rows) = Cardinality(PeptideRows)
           /\ \A k \in 1..Len(summary_rows) : summary_rows[k].Sequence # <<>>
           /\ \A k \in 1..Len(variant_rows) : variant_rows[k].Sequence # <<>>
           /\ \A r \in PeptideRows :
                  \E k \in 1..Len(summary_rows) :
                      /\ results[k].index = r
                      /\ summary_rows[k].total_unique_permutations >= 1

\* C18's case: an input of a blank row before a row with a peptide, written
\* out as the one summary record of the second row.
BlankRowLeftOut ==
    /\ PoolWritten
    /\ Len(rows) = 2
    /\ BlankRows = {1}
    /\ rows[1].Sequence.text = <<" ", "\t">>
    /\ futures[1].result.none
    /\ Len(summary_rows) = 1
    /\ summary_rows[1].Sequence = <<"N">>

\* The sessions thread w created.
SessionsOf(w) == {sn \in 1..Len(sessions) : sessions[sn] = w}

\* C19: under every interleaving no session is used by two threads; a thread
\* creates at most one session, when it takes its first row, and every request
\* of every row it processes goes through that session.
OneSessionPerThread ==
    /\ \A c \in oracle_calls : \A d \in oracle_calls :
           c.session = d.session => c.thread = d.thread
    /\ \A c \in oracle_calls : SessionsOf(c.thread) = {c.session}
    /\ \A w \in 1..num_threads :
           /\ Cardinality(SessionsOf(w)) <= 1
           /\ (SessionsOf(w) # {}) <=> (\E r \in 1..Len(rows) : futures[r].thread = w)

\* C19's case: two threads have each taken a row and made both its requests,
\* each through the session it created.
TwoThreadsTwoSessions ==
    /\ Len(sessions) = 2
    /\ futures[1].thread = 1
    /\ futures[2].thread = 2
    /\ \A r \in {1, 2} : \A ch \in {0, 1} :
           \E c \in oracle_calls :
               c.index = r /\ c.chunk = ch /\ c.thread = r /\ sessions[c.session] = r

PoolReturned == pool_pc \in {"returned", "written"}

\* The variants of the peptide of row r.
VariantsOf(r) ==
    LET pep == PeptideOf(rows[r])
        mods == ModificationsOf(rows[r])
    IN  Range(add_pyro_glu_permutations(
                  Flatten(ReamidatedLists(
                      generate_deamidation_permutations(
                          pep, extract_deamidation_count(mods), mods), mods)), mods))

\* The request of row r for chunk ch (0: the input peptide) was answered.
CallAnswered(r, ch) == \E c \in oracle_calls : c.index = r /\ c.chunk = ch /\ c.ok

\* The results list holds exactly one result for each row with a peptide and
\* nothing else, and the labels of each result are the oracle's, or
\* "no response" where a request of that same row failed.
OneResultPerPeptideRow ==
    /\ \A r \in PeptideRows : Cardinality({k \in 1..Len(results) : results[k].index = r}) = 1
    /\ \A k \in 1..Len(results) :
           LET res == results[k]
           IN  /\ ~res.none
               /\ res.index \in PeptideRows
               /\ res.row = rows[res.index]
               /\ Range(res.final_permutations) = VariantsOf(res.index)
               /\ Len(res.final_permutations) = Cardinality(VariantsOf(res.index))
               /\ Len(res.row_lcas) = Len(res.final_permutations)
               /\ res.input_pep_lca =
                      (IF CallAnswered(res.index, 0)
                       THEN OracleLabel(pool_db, PeptideOf(res.row))
                       ELSE "no response")
               /\ \A i \in 1..Len(res.row_lcas) :
                      res.row_lcas[i] =
                          (IF CallAnswered(res.index, RequestOf(i))
                           THEN OracleLabel(pool_db, res.final_permutations[i])
                           ELSE "no response")

\* The steps row r still has before it: start, two lookups and the collection
\* of its future.
RowStepsLeft(r) ==
    IF r \in collected THEN 0
    ELSE IF futures[r].state \in {"finished", "raised"} THEN 1
    ELSE IF futures[r].state = "pending" THEN 4
    ELSE IF \E w \in 1..num_threads :
                tasks[w].index = r /\ tasks[w].stage = "lookup_variants" THEN 2
    ELSE 3

\* The steps the run still has before it.
StepsLeft ==
    SumSeq([r \in 1..Len(rows) |-> RowStepsLeft(r)])
    + (IF pool_pc = "running" THEN 2
       ELSE IF pool_pc \in {"returned", "unwinding"} THEN 1 ELSE 0)

\* Some thread can take a step: a free worker has a row to take, a worker is
\* in a lookup (every request ends: timeout=10), a future that is done waits
\* for the loop of run_pipeline, every future has been collected, or the
\* executor has waited for every row on its way out.
Runnable ==
    \/ \E w \in 1..num_threads : TakesRow(w)
    \/ \E w \in 1..num_threads : tasks[w].stage \in {"lookup_input", "lookup_variants"}
    \/ /\ pool_pc = "running"
       /\ \E r \in (1..Len(rows)) \ collected : futures[r].state \in {"finished", "raised"}
    \/ pool_pc = "running" /\ collected = 1..Len(rows)
    \/ /\ pool_pc = "unwinding"
       /\ \A r \in 1..Len(rows) : futures[r].state \in {"finished", "raised"}

\* C20: for every input, number of threads, completion order and pattern of
\* oracle failures, run_pipeline terminates (as long as it has not returned
\* some thread can take a step, and every step leaves fewer steps to take),
\* with exactly one result for each row with a peptide and nothing else; a
\* failure in one row turns only that row's labels into "no response".
RowsIsolated ==
    /\ [](PoolReturned => OneResultPerPeptideRow)
    /\ [](~PoolReturned => Runnable)
    /\ [][StepsLeft' < StepsLeft /\ StepsLeft' >= 0]_vars

(***************************************************************************)
(* The row's variants as a whole                                           *)
(***************************************************************************)

\* The strings Phase 1 returns.
Phase1Set == {peptide_options[k].perm : k \in 1..Len(peptide_options)}

\* The strings Phase 3 makes of the Phase-2 strings.
Phase3Made ==
    IF GlnMatch THEN {LeadingReplaced(v, "E") : v \in Phase2Set}
    ELSE IF GluMatch THEN {LeadingReplaced(v, "Q") : v \in Phase2Set}
    ELSE {}

\* process_row went past the lookups.
Resolved == pc \in {"resolved", "written"}

\* C21: the list of variants process_row returns holds no string twice, it is
\* as long as there are distinct strings among those of Phases 1 to 3, and
\* the list of labels has one entry for each of them.
FinalListDuplicateFree ==
    /\ Generated =>
           /\ \A i \in 1..Len(final_permutations) :
                  \A j \in 1..Len(final_permutations) :
                      i # j => final_permutations[i] # final_permutations[j]
           /\ Len(final_permutations)
                  = Cardinality(Phase1Set \cup Phase2Set \cup Phase3Made)
    /\ Resolved =>
           /\ Len(row_lcas) = Len(final_permutations)
           /\ Len(row_lcas) = Cardinality(FinalSet)

\* C21's case: a row whose variants come from all three phases, each variant
\* with its label.
FourVariantsFourLabels ==
    /\ pc = "written"
    /\ GlnMatch
    /\ max_substitutions >= 1
    /\ Cardinality(Phase1Set) >= 2
    /\ Phase3Made # {}
    /\ Len(final_permutations) = 4
    /\ Len(row_lcas) = 4

\* The list process_row hands to Phase 3: the Phase-2 lists, one after the
\* other.
Phase2List == Flatten(reamidated)

\* C24: the final list of a row holds the unmodified input peptide, and the
\* first element of the list handed to add_pyro_glu_permutations, which that
\* function takes for the original peptide, is the unmodified input peptide.
InputAmongItsVariants ==
    Generated =>
        /\ peptide \in FinalSet
        /\ Phase2List # <<>>
        /\ Phase2List[1] = peptide

\* C24's case: several Phase-1 variants, each expanded by Phase 2, Phase 3 at
\* work, and a final list that does not start with the input peptide.
InputListedAmongMany ==
    /\ pc = "generated"
    /\ GluMatch
    /\ Len(peptide_options) >= 2
    /\ Len(Phase2List) >= 4
    /\ final_permutations[1] # peptide
    /\ \E i \in 2..Len(final_permutations) : final_permutations[i] = peptide

\* C25: the list built from Phases 1 and 2 holds no string twice; it has 2^(d+e)
\* strings for each Phase-1 variant with d + e eligible positions; and when
\* Phase 3 does not apply the final list is as long.
Phases12NeverRepeat ==
    Generated =>
        /\ \A i \in 1..Len(Phase2List) : \A j \in 1..Len(Phase2List) :
               i # j => Phase2List[i] # Phase2List[j]
        /\ Len(Phase2List)
               = SumSeq([k \in 1..Len(peptide_options) |->
                            Pow2(Cardinality(Eligible(k)))])
        /\ (~GlnMatch /\ ~GluMatch) => Len(final_permutations) = Len(Phase2List)

\* C25's case: two Phase-1 variants, the second with a substituted position,
\* each with two eligible positions, and no Phase 3.
EightStringsNoneTwice ==
    /\ pc = "generated"
    /\ ~GlnMatch /\ ~GluMatch
    /\ Len(peptide_options) = 2
    /\ peptide_options[2].modified_positions # <<>>
    /\ \A k \in {1, 2} : Cardinality(Eligible(k)) = 2
    /\ Len(Phase2List) = 8
    /\ Len(final_permutations) = 8

\* The other residue of the pairs N/D and Q/E; a residue of neither pair has
\* none.
Partner(residue) ==
    CASE residue = "N" -> "D"
      [] residue = "D" -> "N"
      [] residue = "Q" -> "E"
      [] residue = "E" -> "Q"
      [] OTHER -> residue

\* The positions at which v shows an N or Q of the input as D or E, the leading
\* one left out when Phase 3 changed it.
DeamidatedIn(v) ==
    {i \in 1..Len(peptide) :
        /\ peptide[i] \in {"N", "Q"}
        /\ v[i] \in {"D", "E"}
        /\ ~(i = 1 /\ GlnMatch)}

\* C26: every string of the final list is as long as the input peptide and
\* holds, at each position, the input's residue or its partner under N<->D and
\* Q<->E; and, the leading residue changed by Phase 3 apart, at most m of the
\* input's N and Q appear as D or E.
VariantsKeepShape ==
    Generated =>
        \A v \in FinalSet :
            /\ Len(v) = Len(peptide)
            /\ \A i \in 1..Len(peptide) :
                   /\ v[i] \in {peptide[i], Partner(peptide[i])}
                   /\ peptide[i] \notin {"N", "D", "Q", "E"} => v[i] = peptide[i]
            /\ Cardinality(DeamidatedIn(v)) <= max_substitutions

\* C26's case: a variant with the leading Q changed by Phase 3, an N changed by
\* Phase 1 within a budget of one, and a D reverted by Phase 2, beside a
\* residue of neither pair.
VariantChangedByAllPhases ==
    /\ pc = "generated"
    /\ max_substitutions = 1
    /\ Len(peptide) = 3
    /\ \E v \in FinalSet :
           /\ peptide[1] = "Q" /\ v[1] = "E"
           /\ \E i \in 2..3 : peptide[i] = "N" /\ v[i] = "D"
    /\ \E v \in FinalSet :
           /\ peptide[1] = "Q" /\ v[1] = "E"
           /\ \E i \in 2..3 : peptide[i] = "D" /\ v[i] = "N"

\* The positions Phase 1 could substitute: those it takes its combinations
\* of N-positions and of Q-positions from.
Phase1Sites ==
    Len(CandidateIndices(peptide, modifications, "N"))
    + Len(CandidateIndices(peptide, modifications, "Q"))

\* C27: count_deamidatable_residues counts the positions Phase 1 enumerates
\* over (both leave out a leading Q or E exactly when the annotation contains
\* "pyro"), so "required" is returned exactly when the verdict is "no", the
\* budget is positive and the budget is smaller than the number of positions
\* Phase 1 could substitute; for the empty peptide, which Phase 1 is never run
\* on, the count is 0 and the position is not required.
CheckCountsPhase1Sites ==
    Checked =>
        /\ peptide = <<>> =>
               /\ count_deamidatable_residues(peptide, modifications) = 0
               /\ deamid_check = "not required"
        /\ peptide # <<>> =>
               /\ count_deamidatable_residues(peptide, modifications) = Phase1Sites
               /\ (deamid_check = "required") <=>
                      /\ identical_lcas = "no"
                      /\ extract_deamidation_count(modifications) > 0
                      /\ extract_deamidation_count(modifications) < Phase1Sites
               /\ deamid_check \in {"required", "not required"}

\* C27's case: a leading Q under a pyro annotation and a verdict of "no", with
\* as many events as positions Phase 1 could substitute: one fewer than the N
\* and Q of the peptide.
LeadingResidueCountedByNeither ==
    /\ Checked
    /\ NTerminalExcluded
    /\ peptide[1] = "Q"
    /\ identical_lcas = "no"
    /\ Phase1Sites = 2
    /\ extract_deamidation_count(modifications) = 2
    /\ Cardinality({i \in 1..Len(peptide) : peptide[i] \in {"N", "Q"}}) = 3
    /\ deamid_check = "not required"

\* The rows r and s hold the same peptide and the same annotation.
SamePair(r, s) ==
    /\ PeptideOf(rows[r]) = PeptideOf(rows[s])
    /\ ModificationsOf(rows[r]) = ModificationsOf(rows[s])

\* The thread that runs process_row on row r, 0 if none does.
RunningOn(r) ==
    IF \E w \in 1..num_threads : tasks[w].index = r
    THEN CHOOSE w \in 1..num_threads : tasks[w].index = r
    ELSE 0

\* The final_permutations process_row built for row r.
VariantListOf(r) ==
    IF RunningOn(r) # 0 THEN tasks[RunningOn(r)].final_permutations
    ELSE futures[r].result.final_permutations

MarkerPositions(text) ==
    {k \in 1..Len(text) :
        /\ IsMarkerWord(text[k])
        /\ \E j \in (k + 1)..Len(text) :
               /\ IsNQ(text[j])
               /\ \A i \in (k + 1)..(j - 1) : IsSpace(text[i])}

\* Where the lexemes of the class that lead up to index k begin; k if the
\* lexeme before k is not of the class.
LeadStart(text, k, class) ==
    CHOOSE s \in 1..k :
        /\ s = 1 \/ text[s - 1] \notin class
        /\ \A i \in s..(k - 1) : text[i] \in class

RECURSIVE NumberWritten(_, _, _)
\* The number the digits first..last of the text write.
NumberWritten(text, first, last) ==
    IF first > last THEN 0
    ELSE 10 * NumberWritten(text, first, last - 1) + DigitValue(text[last])

\* The integer of the marker at k: the number its digits write, the digits
\* being those that lead up to the word or to the whitespace before it; 1 for
\* a marker without digits.
MarkerInteger(text, k) ==
    LET word == LeadStart(text, k, Spaces)
        first == LeadStart(text, word, Digits)
        significant == CHOOSE f \in first..word :
                           /\ f = word \/ text[f] # "0"
                           /\ \A i \in first..(f - 1) : text[i] = "0"
    IN  IF first = word THEN 1 ELSE NumberWritten(text, significant, word - 1)

RECURSIVE MarkerSum(_, _)
\* The sum of the integers of the markers at the indices ks.
MarkerSum(text, ks) ==
    IF ks = {} THEN 0
    ELSE LET k == CHOOSE k \in ks : TRUE
         IN  MarkerInteger(text, k) + MarkerSum(text, ks \ {k})

\* The count, where extract_deamidation_count returned one, is the sum of the
\* integers of the markers of the text, and a text without a marker leaves
\* Phase 1 with the unmodified peptide alone.
CountIsMarkerSum ==
    /\ pc \in {"counted", "phase1"} =>
           max_substitutions = MarkerSum(modifications, MarkerPositions(modifications))
    /\ (pc \in {"counted", "phase1"} /\ MarkerPositions(modifications) = {}) =>
           max_substitutions = 0
    /\ (pc = "phase1" /\ MarkerPositions(modifications) = {}) =>
           peptide_options
               = << [perm |-> peptide, count |-> 0, modified_positions |-> <<>>] >>

\* C23: extract_deamidation_count never raises and returns the sum over the
\* deamidation markers of the annotation of the marker's integer, 1 for a
\* marker without one, hence 0 for an annotation that is empty or without a
\* marker, which leaves Phase 1 with the unmodified peptide alone.
EventCountNeverRaises ==
    /\ pc # "raised"
    /\ CountIsMarkerSum

====
